---- MODULE Spec2Model ----
(***************************************************************************)
(* The session auto-lock controller of src/src/components/AppLocked.tsx:   *)
(* the locked flag, the lock overlay, the credential slide, the activity   *)
(* timestamp, the periodic idle check, the throttled activity handler and  *)
(* the password submission, together with the collaborators the component  *)
(* drives (in-app browser, bottom sheet, "PIN accepted" flag, verification *)
(* service, haptic service).                                               *)
(*                                                                         *)
(* One component instance is modelled; the execution context it runs in    *)
(* (plain, delegating, delegated) and its configuration are chosen in Init *)
(* and stay fixed in Spec.  Time is Date.now() in milliseconds, counted    *)
(* from the mount of the component; timers fire when they are due (time    *)
(* does not pass a due timer).                                             *)
(***************************************************************************)
EXTENDS Integers, FiniteSets, Sequences, TLC

VARIABLES
  IS_CAPACITOR,                    \* build flag (native build)
  IS_DELEGATED_BOTTOM_SHEET,       \* this context is the delegated overlay
  IS_DELEGATING_BOTTOM_SHEET,      \* this context is a primary that owns a delegated overlay
  autolockValue,                   \* prop
  isHardwareAccount,               \* prop
  isNonNativeBiometricAuthEnabled, \* prop
  isLocked,                        \* useFlag, line 78
  shouldRenderUi,                  \* useFlag, line 79
  lastActivityTime,                \* useRef, line 80
  slideForBiometricAuth,           \* useState, line 81
  passwordError,                   \* useState, line 84
  closeTimeout,                    \* useShowTransition: the exit transition is running
  intervalStart,                   \* setInterval of line 164: when it was started (None: not running)
  intervalDue,                     \* ... and when it fires next
  throttleDue,                     \* useThrottledCallback: end of the running throttle window (None: idle)
  throttlePending,                 \* ... a call arrived inside the window
  now,                             \* Date.now()
  isBackground,                    \* host: the window has no focus
  inFlight,                        \* handleSubmitPassword calls suspended at an await
  isPinAccepted,                   \* global flag set by setIsPinAccepted / clearIsPinAccepted
  browserVisible,                  \* in-app browser overlay
  browserShows,                    \* show() calls the in-app browser received since its last hide()
  bottomSheetVisible,              \* delegated overlay, as commanded by BottomSheet.show / hide
  activityMessages,                \* submitAppLockActivityEvent calls made by this context
  mounted,                         \* the component is mounted
  listeners,                       \* window listeners of handleActivityThrottled: lines 143-153
  subscribed                       \* handleActivityThrottled is subscribed to the activity signal: line 158

vars == <<IS_CAPACITOR, IS_DELEGATED_BOTTOM_SHEET, IS_DELEGATING_BOTTOM_SHEET,
          autolockValue, isHardwareAccount, isNonNativeBiometricAuthEnabled,
          isLocked, shouldRenderUi, lastActivityTime, slideForBiometricAuth,
          passwordError, closeTimeout, intervalStart, intervalDue, throttleDue,
          throttlePending, now, isBackground, inFlight, isPinAccepted,
          browserVisible, browserShows, bottomSheetVisible, activityMessages,
          mounted, listeners, subscribed>>

mountVars == <<mounted, listeners, subscribed>>

envVars == <<IS_CAPACITOR, IS_DELEGATED_BOTTOM_SHEET, IS_DELEGATING_BOTTOM_SHEET,
             autolockValue, isHardwareAccount, isNonNativeBiometricAuthEnabled>>

------------------------------------------------------------------------------
(* Constants of the component *)

WINDOW_EVENTS_LATENCY == 5000
INTERVAL_CHECK_PERIOD == 5000

(* Bounds of the model *)
MaxSteps == 6        \* time runs for MaxSteps steps of TimeStep
MaxPending == 2      \* handleSubmitPassword calls suspended at the same time
MaxShows == 2        \* browserShows saturates here

TimeStep == INTERVAL_CHECK_PERIOD \div 2
MaxTime == MaxSteps * TimeStep
None == 0 - 1

Max(a, b) == IF a >= b THEN a ELSE b
Min(a, b) == IF a <= b THEN a ELSE b

\* enum SLIDES
SLIDES == [button |-> "button", passwordForm |-> "passwordForm"]

WrongPasswordMessage == "Wrong password, please try again."

\* The option list of ../config: value -> period in ms.  The durations are
\* kept short so that the model's clock covers them.
AUTOLOCK_OPTIONS_LIST == [v \in {"never", "1", "2"} |->
                            CASE v = "never" -> 0
                              [] v = "1" -> INTERVAL_CHECK_PERIOD
                              [] v = "2" -> 2 * INTERVAL_CHECK_PERIOD]

\* useMemo of line 94
autolockPeriod == AUTOLOCK_OPTIONS_LIST[autolockValue]

\* lines 39-48
ACTIVATION_EVENT_NAMES == {"focus", "mousemove", "touch", "wheel", "keydown"}
ACTIVATION_EVENT_OPTIONS == [capture |-> TRUE]

\* window.addEventListener / removeEventListener for one handler: a listener
\* is identified by the event name and the capture flag
addEventListener(registered, names, options) ==
  registered \cup {[name |-> e, capture |-> options.capture] : e \in names}
removeEventListener(registered, names, options) ==
  registered \ {[name |-> e, capture |-> options.capture] : e \in names}

\* what callApi('verifyPassword') can give the awaiting handler
VerifyResults == {"true", "false", "undefined", "throws"}

------------------------------------------------------------------------------
(* Initial values *)

\* InitialLocked without the hardware-account test
InitialLockedIgnoringHardware(value, hardware) == value # "never"

\* line 78: the initial value of the isLocked flag
InitialLocked(value, hardware) == value # "never" /\ ~hardware

\* line 82: the initial slide
InitialSlide(background) == IF background THEN SLIDES.button ELSE SLIDES.passwordForm

Init ==
  /\ IS_CAPACITOR \in BOOLEAN
  /\ IS_DELEGATED_BOTTOM_SHEET \in BOOLEAN
  /\ IS_DELEGATING_BOTTOM_SHEET \in BOOLEAN
  \* the bottom sheet exists on the native build only, and a context is one side of it
  /\ ~(IS_DELEGATED_BOTTOM_SHEET /\ IS_DELEGATING_BOTTOM_SHEET)
  /\ (IS_DELEGATED_BOTTOM_SHEET \/ IS_DELEGATING_BOTTOM_SHEET) => IS_CAPACITOR
  /\ autolockValue \in DOMAIN AUTOLOCK_OPTIONS_LIST
  /\ isHardwareAccount \in BOOLEAN
  /\ isNonNativeBiometricAuthEnabled \in BOOLEAN
  /\ isBackground \in BOOLEAN
  /\ now = 0
  /\ isLocked = InitialLocked(autolockValue, isHardwareAccount)
  /\ shouldRenderUi = isLocked
  /\ lastActivityTime = now
  /\ slideForBiometricAuth = InitialSlide(isBackground)
  /\ passwordError = ""
  /\ closeTimeout = FALSE
  \* the effect of line 161 has run
  /\ intervalStart = IF IS_DELEGATED_BOTTOM_SHEET THEN None ELSE now
  /\ intervalDue = IF IS_DELEGATED_BOTTOM_SHEET THEN None ELSE now + INTERVAL_CHECK_PERIOD
  /\ throttleDue = None
  /\ throttlePending = FALSE
  /\ inFlight = [accept |-> 0, refuse |-> 0, haptic |-> 0]
  /\ isPinAccepted = FALSE
  /\ browserVisible = TRUE
  /\ browserShows = 0
  /\ bottomSheetVisible = TRUE
  /\ activityMessages = 0
  \* the effects of lines 143 and 155 have run
  /\ mounted = TRUE
  /\ listeners = addEventListener({}, ACTIVATION_EVENT_NAMES, ACTIVATION_EVENT_OPTIONS)
  /\ subscribed = ~IS_DELEGATED_BOTTOM_SHEET

------------------------------------------------------------------------------
(* Derived values *)

\* the guard of handleLock (line 101) and the initial value of line 78
AutolockEnabled == autolockValue # "never" /\ ~isHardwareAccount

\* lines 188 and 200: which credential slide renderTransitionContent shows
CredentialSlide ==
  IF isNonNativeBiometricAuthEnabled /\ slideForBiometricAuth = SLIDES.button
    THEN "BiometricPrompt"
    ELSE "PasswordForm"

\* lines 225-237: what the component renders
Rendered ==
  IF IS_DELEGATED_BOTTOM_SHEET THEN "undefined"
  ELSE IF shouldRenderUi THEN CredentialSlide
  ELSE "empty"

\* the lock state of the session: Unlocked, or Locked with the credential
\* slide as sub-state (lines 78 and 188-200)
LockState == IF isLocked THEN CredentialSlide ELSE "Unlocked"

InFlightCount == inFlight.accept + inFlight.refuse + inFlight.haptic

------------------------------------------------------------------------------
(* Hooks that re-run when the component re-renders with a new isLocked *)

\* useShowTransition(isLocked, afterUnlockCallback, true, 'slow'): opening
\* cancels a running exit transition, closing starts one
useShowTransition(wasOpen, isOpen, timeout) ==
  IF isOpen THEN FALSE
  ELSE IF wasOpen THEN TRUE
  ELSE timeout

\* lines 161-170: the effect restarts the interval when isLocked changed
\* (autolockPeriod and handleLock are stable); `fired` says that the step is
\* the interval's own callback
IntervalEffect(fired) ==
  IF IS_DELEGATED_BOTTOM_SHEET
    THEN UNCHANGED <<intervalStart, intervalDue>>
  ELSE IF isLocked' # isLocked
    THEN /\ intervalStart' = now
         /\ intervalDue' = now + INTERVAL_CHECK_PERIOD
  ELSE /\ intervalStart' = intervalStart
       /\ intervalDue' = IF fired THEN intervalDue + INTERVAL_CHECK_PERIOD ELSE intervalDue

------------------------------------------------------------------------------
(* Callbacks of the component *)

\* handleLock without the guard of line 101
handleLockUnguarded ==
  /\ isLocked' = TRUE
  /\ shouldRenderUi' = TRUE
  /\ bottomSheetVisible' = IF IS_DELEGATING_BOTTOM_SHEET THEN FALSE ELSE bottomSheetVisible
  /\ browserVisible' = FALSE
  /\ browserShows' = 0
  /\ closeTimeout' = useShowTransition(isLocked, TRUE, closeTimeout)
  /\ slideForBiometricAuth' = SLIDES.button

\* handleLock without the slide reset of line 107
handleLockKeepingSlide ==
  /\ IF autolockValue # "never" /\ ~isHardwareAccount
       THEN /\ isLocked' = TRUE
            /\ shouldRenderUi' = TRUE
            /\ bottomSheetVisible' = IF IS_DELEGATING_BOTTOM_SHEET THEN FALSE ELSE bottomSheetVisible
            /\ browserVisible' = FALSE
            /\ browserShows' = 0
            /\ closeTimeout' = useShowTransition(isLocked, TRUE, closeTimeout)
       ELSE UNCHANGED <<isLocked, shouldRenderUi, bottomSheetVisible, browserVisible,
                        browserShows, closeTimeout>>
  /\ UNCHANGED slideForBiometricAuth

\* handleLock without the showUi() of line 103
handleLockWithoutShowUi ==
  /\ IF autolockValue # "never" /\ ~isHardwareAccount
       THEN /\ isLocked' = TRUE
            /\ UNCHANGED shouldRenderUi
            /\ bottomSheetVisible' = IF IS_DELEGATING_BOTTOM_SHEET THEN FALSE ELSE bottomSheetVisible
            /\ browserVisible' = FALSE
            /\ browserShows' = 0
            /\ closeTimeout' = useShowTransition(isLocked, TRUE, closeTimeout)
       ELSE UNCHANGED <<isLocked, shouldRenderUi, bottomSheetVisible, browserVisible,
                        browserShows, closeTimeout>>
  /\ slideForBiometricAuth' = SLIDES.button

\* lines 100-108 (the interval is left to IntervalEffect)
handleLock ==
  /\ IF autolockValue # "never" /\ ~isHardwareAccount
       THEN /\ isLocked' = TRUE
            /\ shouldRenderUi' = TRUE
            /\ bottomSheetVisible' = IF IS_DELEGATING_BOTTOM_SHEET THEN FALSE ELSE bottomSheetVisible
            /\ browserVisible' = FALSE
            /\ browserShows' = 0
            /\ closeTimeout' = useShowTransition(isLocked, TRUE, closeTimeout)
       ELSE UNCHANGED <<isLocked, shouldRenderUi, bottomSheetVisible, browserVisible,
                        browserShows, closeTimeout>>
  /\ slideForBiometricAuth' = SLIDES.button

\* afterUnlockCallback without the show() of line 89
afterUnlockCallbackWithoutShow ==
  /\ shouldRenderUi' = FALSE
  /\ slideForBiometricAuth' = SLIDES.button
  /\ UNCHANGED <<browserVisible, browserShows>>
  /\ isPinAccepted' = FALSE
  /\ bottomSheetVisible' = IF IS_DELEGATING_BOTTOM_SHEET THEN TRUE ELSE bottomSheetVisible

\* lines 86-92
afterUnlockCallback ==
  /\ shouldRenderUi' = FALSE
  /\ slideForBiometricAuth' = SLIDES.button
  /\ browserVisible' = TRUE
  /\ browserShows' = Min(browserShows + 1, MaxShows)
  /\ isPinAccepted' = FALSE
  /\ bottomSheetVisible' = IF IS_DELEGATING_BOTTOM_SHEET THEN TRUE ELSE bottomSheetVisible

\* line 128: unlock(), and the re-render it causes
unlock ==
  /\ isLocked' = FALSE
  /\ closeTimeout' = useShowTransition(isLocked, FALSE, closeTimeout)
  /\ IntervalEffect(FALSE)

\* handleChangeSlideForBiometricAuth choosing the other slide
handleChangeSlideToButton == slideForBiometricAuth' = SLIDES.button

\* lines 112-114
handleChangeSlideForBiometricAuth == slideForBiometricAuth' = SLIDES.passwordForm

\* handleActivity without the delegated branch of lines 134-137
handleActivityAlwaysLocal ==
  /\ lastActivityTime' = now
  /\ UNCHANGED activityMessages

\* handleActivity recording nothing while the session is Locked
handleActivityOnlyUnlocked ==
  IF IS_DELEGATED_BOTTOM_SHEET
    THEN /\ activityMessages' = activityMessages + 1
         /\ UNCHANGED lastActivityTime
    ELSE /\ lastActivityTime' = IF isLocked THEN lastActivityTime ELSE now
         /\ UNCHANGED activityMessages

\* lines 133-139
handleActivity ==
  IF IS_DELEGATED_BOTTOM_SHEET
    THEN /\ activityMessages' = activityMessages + 1
         /\ UNCHANGED lastActivityTime
    ELSE /\ lastActivityTime' = now
         /\ UNCHANGED activityMessages

\* line 141: useThrottledCallback(handleActivity, ..., WINDOW_EVENTS_LATENCY).
\* The first call runs at once and opens a window; calls inside the window
\* are merged into one run at its end.
handleActivityThrottled ==
  IF throttleDue = None
    THEN /\ handleActivity
         /\ throttleDue' = now + WINDOW_EVENTS_LATENCY
         /\ throttlePending' = FALSE
    ELSE /\ throttlePending' = TRUE
         /\ UNCHANGED <<throttleDue, lastActivityTime, activityMessages>>

\* the condition of line 165 with the negation of isLocked lost
ShouldLockWhenLocked == isLocked /\ now - lastActivityTime > autolockPeriod

\* the condition of line 165 with >= for >
ShouldLockAtPeriod == ~isLocked /\ now - lastActivityTime >= autolockPeriod

\* line 165: the condition of the periodic check
ShouldLock == ~isLocked /\ now - lastActivityTime > autolockPeriod

\* SubmitContinuation without the return of line 121
SubmitContinuationWithoutReturn(result, rest) ==
  IF result = "throws"
    THEN /\ inFlight' = rest
         /\ UNCHANGED <<passwordError, isPinAccepted, isLocked, closeTimeout,
                        intervalStart, intervalDue>>
  ELSE /\ passwordError' = IF result # "true" THEN WrongPasswordMessage ELSE passwordError
       /\ IF IS_CAPACITOR
            THEN /\ isPinAccepted' = TRUE
                 /\ inFlight' = [rest EXCEPT !.haptic = @ + 1]
                 /\ UNCHANGED <<isLocked, closeTimeout, intervalStart, intervalDue>>
            ELSE /\ unlock
                 /\ inFlight' = rest
                 /\ UNCHANGED isPinAccepted

\* SubmitContinuation with the message of line 120 left out
SubmitContinuationWithoutMessage(result, rest) ==
  IF result # "true"
    THEN /\ inFlight' = rest
         /\ UNCHANGED <<passwordError, isPinAccepted, isLocked, closeTimeout,
                        intervalStart, intervalDue>>
  ELSE IF IS_CAPACITOR
    THEN /\ isPinAccepted' = TRUE
         /\ inFlight' = [rest EXCEPT !.haptic = @ + 1]
         /\ UNCHANGED <<passwordError, isLocked, closeTimeout, intervalStart, intervalDue>>
  ELSE /\ unlock
       /\ inFlight' = rest
       /\ UNCHANGED <<passwordError, isPinAccepted>>

\* SubmitContinuation with the test of line 119 inverted
SubmitContinuationInverted(result, rest) ==
  IF result = "throws"
    THEN /\ inFlight' = rest
         /\ UNCHANGED <<passwordError, isPinAccepted, isLocked, closeTimeout,
                        intervalStart, intervalDue>>
  ELSE IF result = "true"
    THEN /\ passwordError' = WrongPasswordMessage
         /\ inFlight' = rest
         /\ UNCHANGED <<isPinAccepted, isLocked, closeTimeout, intervalStart, intervalDue>>
  ELSE IF IS_CAPACITOR
    THEN /\ isPinAccepted' = TRUE
         /\ inFlight' = [rest EXCEPT !.haptic = @ + 1]
         /\ UNCHANGED <<passwordError, isLocked, closeTimeout, intervalStart, intervalDue>>
  ELSE /\ unlock
       /\ inFlight' = rest
       /\ UNCHANGED <<passwordError, isPinAccepted>>

\* lines 116-129 from the await of line 117 on: `result` is what callApi gave,
\* `rest` the suspended calls without this one
SubmitContinuation(result, rest) ==
  IF result = "throws"
    THEN /\ inFlight' = rest
         /\ UNCHANGED <<passwordError, isPinAccepted, isLocked, closeTimeout,
                        intervalStart, intervalDue>>
  ELSE IF result # "true"
    THEN /\ passwordError' = WrongPasswordMessage
         /\ inFlight' = rest
         /\ UNCHANGED <<isPinAccepted, isLocked, closeTimeout, intervalStart, intervalDue>>
  ELSE IF IS_CAPACITOR
    THEN /\ isPinAccepted' = TRUE
         /\ inFlight' = [rest EXCEPT !.haptic = @ + 1]
         /\ UNCHANGED <<passwordError, isLocked, closeTimeout, intervalStart, intervalDue>>
  ELSE /\ unlock
       /\ inFlight' = rest
       /\ UNCHANGED <<passwordError, isPinAccepted>>

------------------------------------------------------------------------------
(* Actions: one per event the component handles *)

\* the password form is on screen (line 201)
FormShown == Rendered = "PasswordForm"

\* PasswordForm's onSubmit: handleSubmitPassword runs up to the await of line
\* 117; `accepted` is what the verification service will answer
SubmitPassword(accepted) ==
  /\ mounted
  /\ FormShown
  /\ InFlightCount < MaxPending
  /\ inFlight' = IF accepted THEN [inFlight EXCEPT !.accept = @ + 1]
                             ELSE [inFlight EXCEPT !.refuse = @ + 1]
  /\ UNCHANGED <<envVars, mountVars, isLocked, shouldRenderUi, lastActivityTime, slideForBiometricAuth,
                 passwordError, closeTimeout, intervalStart, intervalDue, throttleDue,
                 throttlePending, now, isBackground, isPinAccepted, browserVisible,
                 browserShows, bottomSheetVisible, activityMessages>>

\* verifyPassword resolves as accepted
VerifyAccepted ==
  /\ mounted
  /\ inFlight.accept > 0
  /\ SubmitContinuation("true", [inFlight EXCEPT !.accept = @ - 1])
  /\ UNCHANGED <<envVars, mountVars, shouldRenderUi, lastActivityTime, slideForBiometricAuth,
                 throttleDue, throttlePending, now, isBackground, browserVisible,
                 browserShows, bottomSheetVisible, activityMessages>>

\* verifyPassword resolves as rejected, resolves with no value, or fails
VerifyRefused(result) ==
  /\ mounted
  /\ result \in VerifyResults \ {"true"}
  /\ inFlight.refuse > 0
  /\ SubmitContinuation(result, [inFlight EXCEPT !.refuse = @ - 1])
  /\ UNCHANGED <<envVars, mountVars, shouldRenderUi, lastActivityTime, slideForBiometricAuth,
                 throttleDue, throttlePending, now, isBackground, browserVisible,
                 browserShows, bottomSheetVisible, activityMessages>>

\* vibrateOnSuccess resolves: line 128
HapticResolved ==
  /\ mounted
  /\ inFlight.haptic > 0
  /\ inFlight' = [inFlight EXCEPT !.haptic = @ - 1]
  /\ unlock
  /\ UNCHANGED <<envVars, mountVars, shouldRenderUi, lastActivityTime, slideForBiometricAuth,
                 passwordError, throttleDue, throttlePending, now, isBackground,
                 isPinAccepted, browserVisible, browserShows, bottomSheetVisible,
                 activityMessages>>

\* PasswordForm's onUpdate: line 131
PasswordChange ==
  /\ mounted
  /\ FormShown
  /\ passwordError # ""
  /\ passwordError' = ""
  /\ UNCHANGED <<envVars, mountVars, isLocked, shouldRenderUi, lastActivityTime, slideForBiometricAuth,
                 closeTimeout, intervalStart, intervalDue, throttleDue, throttlePending,
                 now, isBackground, inFlight, isPinAccepted, browserVisible, browserShows,
                 bottomSheetVisible, activityMessages>>

\* the exit transition of useShowTransition ends: afterUnlockCallback runs
TransitionEnd ==
  /\ mounted
  /\ closeTimeout
  /\ closeTimeout' = FALSE
  /\ afterUnlockCallback
  /\ UNCHANGED <<envVars, mountVars, isLocked, lastActivityTime, passwordError, intervalStart,
                 intervalDue, throttleDue, throttlePending, now, isBackground, inFlight,
                 activityMessages>>

\* the interval of line 164 fires
Tick ==
  /\ mounted
  /\ intervalDue # None
  /\ intervalDue = now
  /\ IF ShouldLock
       THEN handleLock
       ELSE UNCHANGED <<isLocked, shouldRenderUi, bottomSheetVisible, browserVisible,
                        browserShows, closeTimeout, slideForBiometricAuth>>
  /\ IntervalEffect(TRUE)
  /\ UNCHANGED <<envVars, mountVars, lastActivityTime, passwordError, throttleDue, throttlePending,
                 now, isBackground, inFlight, isPinAccepted, activityMessages>>

\* lock() called from outside: the hook of line 110
LockCall ==
  /\ mounted
  /\ handleLock
  /\ IntervalEffect(FALSE)
  /\ UNCHANGED <<envVars, mountVars, lastActivityTime, passwordError, throttleDue, throttlePending,
                 now, isBackground, inFlight, isPinAccepted, activityMessages>>

\* the Unlock button or the container is clicked: lines 195 and 230
SwitchToPasswordForm ==
  /\ mounted
  /\ ~IS_DELEGATED_BOTTOM_SHEET
  /\ isNonNativeBiometricAuthEnabled
  /\ handleChangeSlideForBiometricAuth
  /\ UNCHANGED <<envVars, mountVars, isLocked, shouldRenderUi, lastActivityTime, passwordError,
                 closeTimeout, intervalStart, intervalDue, throttleDue, throttlePending,
                 now, isBackground, inFlight, isPinAccepted, browserVisible, browserShows,
                 bottomSheetVisible, activityMessages>>

\* one of ACTIVATION_EVENT_NAMES other than focus reaches the window: line 145
ActivityEvent ==
  /\ mounted
  /\ \E l \in listeners : l.name # "focus"
  /\ handleActivityThrottled
  /\ UNCHANGED <<envVars, mountVars, isLocked, shouldRenderUi, slideForBiometricAuth, passwordError,
                 closeTimeout, intervalStart, intervalDue, now, isBackground, inFlight,
                 isPinAccepted, browserVisible, browserShows, bottomSheetVisible>>

\* reportAppLockActivityEvent (line 65) reaches the subscription of line 158
ReportAppLockActivityEvent ==
  /\ mounted
  /\ subscribed
  /\ handleActivityThrottled
  /\ UNCHANGED <<envVars, mountVars, isLocked, shouldRenderUi, slideForBiometricAuth, passwordError,
                 closeTimeout, intervalStart, intervalDue, now, isBackground, inFlight,
                 isPinAccepted, browserVisible, browserShows, bottomSheetVisible>>

\* the throttle window of line 141 ends
ThrottleFire ==
  /\ mounted
  /\ throttleDue # None
  /\ throttleDue = now
  /\ IF throttlePending
       THEN /\ handleActivity
            /\ throttlePending' = FALSE
            /\ throttleDue' = throttleDue + WINDOW_EVENTS_LATENCY
       ELSE /\ throttleDue' = None
            /\ UNCHANGED <<throttlePending, lastActivityTime, activityMessages>>
  /\ UNCHANGED <<envVars, mountVars, isLocked, shouldRenderUi, slideForBiometricAuth, passwordError,
                 closeTimeout, intervalStart, intervalDue, now, isBackground, inFlight,
                 isPinAccepted, browserVisible, browserShows, bottomSheetVisible>>

\* the host reports background: useBackgroundMode's onBlur is undefined (line 172)
Background ==
  /\ mounted
  /\ ~isBackground
  /\ isBackground' = TRUE
  /\ UNCHANGED <<envVars, mountVars, isLocked, shouldRenderUi, lastActivityTime, slideForBiometricAuth,
                 passwordError, closeTimeout, intervalStart, intervalDue, throttleDue,
                 throttlePending, now, inFlight, isPinAccepted, browserVisible,
                 browserShows, bottomSheetVisible, activityMessages>>

\* the host reports foreground: the window's focus event runs the second
\* callback given to useBackgroundMode (line 172), which is
\* handleChangeSlideForBiometricAuth (line 113), and, focus being one of
\* ACTIVATION_EVENT_NAMES, the activity listener (line 145)
Foreground ==
  /\ mounted
  /\ isBackground
  /\ isBackground' = FALSE
  /\ handleChangeSlideForBiometricAuth
  /\ handleActivityThrottled
  /\ UNCHANGED <<envVars, mountVars, isLocked, shouldRenderUi, passwordError, closeTimeout,
                 intervalStart, intervalDue, now, inFlight, isPinAccepted, browserVisible,
                 browserShows, bottomSheetVisible>>

\* time passes; no timer that is due is passed over, and the exit transition
\* of the overlay is shorter than one step of the clock
Advance ==
  /\ mounted
  /\ now + TimeStep <= MaxTime
  /\ intervalDue # now
  /\ throttleDue # now
  /\ ~closeTimeout
  /\ now' = now + TimeStep
  /\ UNCHANGED <<envVars, mountVars, isLocked, shouldRenderUi, lastActivityTime, slideForBiometricAuth,
                 passwordError, closeTimeout, intervalStart, intervalDue, throttleDue,
                 throttlePending, isBackground, inFlight, isPinAccepted, browserVisible,
                 browserShows, bottomSheetVisible, activityMessages>>

Next ==
  \/ \E accepted \in BOOLEAN : SubmitPassword(accepted)
  \/ VerifyAccepted
  \/ \E result \in VerifyResults : VerifyRefused(result)
  \/ HapticResolved
  \/ PasswordChange
  \/ TransitionEnd
  \/ Tick
  \/ LockCall
  \/ SwitchToPasswordForm
  \/ ActivityEvent
  \/ ReportAppLockActivityEvent
  \/ ThrottleFire
  \/ Background
  \/ Foreground
  \/ Advance

Spec == Init /\ [][Next]_vars

\* Every verifyPassword call is answered and every vibrateOnSuccess call
\* resolves: the awaits of lines 117 and 126 continue.
FairSpec == Spec /\ WF_vars(VerifyAccepted) /\ WF_vars(HapticResolved)

------------------------------------------------------------------------------
(* The configuration changes while the component is mounted *)

\* ConfigChange computing the locked flag anew from the changed props
ConfigChangeResettingLock(value, hardware, biometric) ==
  /\ mounted
  /\ <<value, hardware, biometric>>
       # <<autolockValue, isHardwareAccount, isNonNativeBiometricAuthEnabled>>
  /\ autolockValue' = value
  /\ isHardwareAccount' = hardware
  /\ isNonNativeBiometricAuthEnabled' = biometric
  /\ isLocked' = InitialLocked(value, hardware)
  /\ shouldRenderUi' = isLocked'
  /\ IF ~IS_DELEGATED_BOTTOM_SHEET
        /\ (AUTOLOCK_OPTIONS_LIST[value] # autolockPeriod \/ isLocked' # isLocked)
       THEN /\ intervalStart' = now
            /\ intervalDue' = now + INTERVAL_CHECK_PERIOD
       ELSE UNCHANGED <<intervalStart, intervalDue>>
  /\ UNCHANGED <<IS_CAPACITOR, IS_DELEGATED_BOTTOM_SHEET, IS_DELEGATING_BOTTOM_SHEET,
                 mountVars, lastActivityTime,
                 slideForBiometricAuth, passwordError, closeTimeout, throttleDue,
                 throttlePending, now, isBackground, inFlight, isPinAccepted,
                 browserVisible, browserShows, bottomSheetVisible, activityMessages>>

\* The props of lines 69-74 change (the global state they are read from was
\* updated) and the component renders again.  autolockPeriod (line 94) is a
\* dependency of the effect of lines 161-170, which starts the interval anew
\* when it changed; the flags of lines 78-79 keep their values.
ConfigChange(value, hardware, biometric) ==
  /\ mounted
  /\ <<value, hardware, biometric>>
       # <<autolockValue, isHardwareAccount, isNonNativeBiometricAuthEnabled>>
  /\ autolockValue' = value
  /\ isHardwareAccount' = hardware
  /\ isNonNativeBiometricAuthEnabled' = biometric
  /\ IF ~IS_DELEGATED_BOTTOM_SHEET /\ AUTOLOCK_OPTIONS_LIST[value] # autolockPeriod
       THEN /\ intervalStart' = now
            /\ intervalDue' = now + INTERVAL_CHECK_PERIOD
       ELSE UNCHANGED <<intervalStart, intervalDue>>
  /\ UNCHANGED <<IS_CAPACITOR, IS_DELEGATED_BOTTOM_SHEET, IS_DELEGATING_BOTTOM_SHEET,
                 mountVars, isLocked, shouldRenderUi, lastActivityTime,
                 slideForBiometricAuth, passwordError, closeTimeout, throttleDue,
                 throttlePending, now, isBackground, inFlight, isPinAccepted,
                 browserVisible, browserShows, bottomSheetVisible, activityMessages>>

NextCfg ==
  \/ Next
  \/ \E value \in DOMAIN AUTOLOCK_OPTIONS_LIST, hardware \in BOOLEAN, biometric \in BOOLEAN :
       ConfigChange(value, hardware, biometric)

\* The contexts in which the changes are followed: the web build and the two
\* sides of the native split.  A native primary without a bottom sheet
\* behaves as the delegating one does, the sheet commands left out.
InitCfg ==
  /\ Init
  /\ IS_CAPACITOR => (IS_DELEGATED_BOTTOM_SHEET \/ IS_DELEGATING_BOTTOM_SHEET)

SpecCfg == InitCfg /\ [][NextCfg]_vars

------------------------------------------------------------------------------
(* The component is unmounted *)

\* the cleanup of the effect of lines 143-153 with another capture flag
ListenerCleanupWithoutCapture ==
  listeners' = removeEventListener(listeners, ACTIVATION_EVENT_NAMES, [capture |-> FALSE])

\* lines 148-152: the cleanup of the listener effect
ListenerCleanup ==
  listeners' = removeEventListener(listeners, ACTIVATION_EVENT_NAMES, ACTIVATION_EVENT_OPTIONS)

\* line 158: the effect returns the unsubscribe function of the signal (in a
\* delegated context there is no subscription and nothing to undo)
SubscriptionCleanup == subscribed' = FALSE

\* line 169: clearInterval (in a delegated context no interval was started)
IntervalCleanup ==
  /\ intervalStart' = None
  /\ intervalDue' = None

\* useThrottledCallback: the throttle timer is torn down with its owner
ThrottleCleanup ==
  /\ throttleDue' = None
  /\ throttlePending' = FALSE

\* the cleanups of all effects run; calls suspended at an await stay suspended
Unmount ==
  /\ mounted
  /\ mounted' = FALSE
  /\ ListenerCleanup
  /\ SubscriptionCleanup
  /\ IntervalCleanup
  /\ ThrottleCleanup
  /\ UNCHANGED <<envVars, isLocked, shouldRenderUi, lastActivityTime, slideForBiometricAuth,
                 passwordError, closeTimeout, now, isBackground, inFlight, isPinAccepted,
                 browserVisible, browserShows, bottomSheetVisible, activityMessages>>

NextTeardown ==
  \/ Next
  \/ Unmount

SpecTeardown == Init /\ [][NextTeardown]_vars

------------------------------------------------------------------------------
(* Claims *)

\* C1: the state goes from Locked to Unlocked only in the step that continues
\* a submitPassword call after its verification was accepted: on the native
\* build the step in which the haptic call (started by an accepted
\* verification, and by nothing else) resolves, elsewhere the step in which
\* the accepted verification resolves.  A step in which a verification is
\* rejected, gives no value or fails leaves the locked flag as it is.
C1_UnlockOnlyAfterAcceptedVerification ==
  [][ /\ (isLocked /\ ~isLocked') =>
           IF IS_CAPACITOR
             THEN inFlight'.haptic = inFlight.haptic - 1 /\ inFlight'.accept = inFlight.accept
             ELSE inFlight'.accept = inFlight.accept - 1 /\ inFlight'.refuse = inFlight.refuse
      /\ (inFlight'.haptic > inFlight.haptic) =>
           (inFlight'.accept = inFlight.accept - 1 /\ inFlight'.refuse = inFlight.refuse)
      /\ (inFlight'.refuse < inFlight.refuse) => (isLocked' = isLocked)
    ]_vars

\* C1 witness: a session that was locked has been unlocked, after an earlier
\* rejection left its message
C1_Witness ==
  /\ autolockValue # "never" /\ ~isHardwareAccount
  /\ ~isLocked
  /\ passwordError = WrongPasswordMessage

\* C2: in the primary context, with autolock enabled, the state does not stay
\* Unlocked with idle time above the period for more than one check period:
\* counted from the moment idle time exceeded the period (or the session was
\* unlocked, if later), at most INTERVAL_CHECK_PERIOD ms pass.
C2_LockWithinOneCheckPeriod ==
  (/\ ~IS_DELEGATED_BOTTOM_SHEET
   /\ autolockValue # "never" /\ ~isHardwareAccount
   /\ ~isLocked
   /\ now - lastActivityTime > autolockPeriod)
  => /\ intervalDue # None
     /\ now <= Max(lastActivityTime + autolockPeriod, intervalStart) + INTERVAL_CHECK_PERIOD

\* C2 witness: the periodic check has just locked a session whose idle time
\* was one full check period above the configured period
C2_Witness ==
  /\ ~IS_DELEGATED_BOTTOM_SHEET
  /\ autolockValue = "2" /\ ~isHardwareAccount
  /\ isLocked
  /\ intervalStart = now
  /\ now = lastActivityTime + autolockPeriod + INTERVAL_CHECK_PERIOD

C4_RejectionKeepsLockedWithMessage ==
  [][ (\E result \in {"false", "undefined"} : VerifyRefused(result)) =>
        /\ isLocked' = isLocked
        /\ CredentialSlide' = CredentialSlide
        /\ passwordError' = WrongPasswordMessage
        /\ inFlight'.accept = inFlight.accept /\ inFlight'.haptic = inFlight.haptic
        /\ inFlight'.refuse = inFlight.refuse - 1
        /\ UNCHANGED <<shouldRenderUi, browserVisible, browserShows, bottomSheetVisible,
                       slideForBiometricAuth, lastActivityTime, closeTimeout>>
    ]_vars

\* C4 witness: Locked{PasswordForm} with the message of an earlier rejection
\* shown and further submissions awaiting their rejection
C4_Witness ==
  /\ isLocked /\ Rendered = "PasswordForm"
  /\ passwordError = WrongPasswordMessage
  /\ inFlight.refuse = MaxPending

\* C5: while the exit transition runs the state is Unlocked and the overlay
\* still shown; once it has ended the overlay is hidden, and the in-app
\* browser is visible having received exactly one show() since the hide() of
\* the lock (and the delegated overlay is shown again).
C5_UnlockRestoresOnce ==
  /\ closeTimeout => (~isLocked /\ shouldRenderUi)
  /\ (autolockValue # "never" /\ ~isHardwareAccount /\ ~isLocked /\ ~closeTimeout)
       => /\ ~shouldRenderUi
          /\ browserVisible
          /\ browserShows = 1
          /\ bottomSheetVisible

\* C5 witness: a session locked by the periodic check or lock() has been
\* unlocked and its exit transition has ended
C5_Witness ==
  /\ autolockValue # "never" /\ ~isHardwareAccount
  /\ ~isLocked /\ ~closeTimeout /\ ~shouldRenderUi
  /\ browserShows = 1
  /\ IS_DELEGATING_BOTTOM_SHEET
  /\ now > 0

\* C6: at startup the state is Locked iff autolock is enabled and the account
\* is not hardware-backed, and the overlay is shown iff the state is Locked.
C6_StartupState ==
  Init => /\ isLocked <=> (autolockValue # "never" /\ ~isHardwareAccount)
          /\ shouldRenderUi <=> isLocked

\* C6 witness: a startup state that is Locked with the overlay shown
C6_Witness == Init /\ isLocked /\ shouldRenderUi /\ autolockValue = "1"

\* C7: in a delegated context the activity timestamp keeps its mount value,
\* no periodic check is running, nothing is rendered and the locked flag
\* never changes; a step of the activity handler there sends one message or
\* none and writes nothing else.
C7_DelegatedOnlyForwards ==
  /\ [](IS_DELEGATED_BOTTOM_SHEET =>
          /\ lastActivityTime = 0
          /\ intervalStart = None /\ intervalDue = None
          /\ Rendered = "undefined")
  /\ [][IS_DELEGATED_BOTTOM_SHEET =>
          /\ isLocked' = isLocked
          /\ activityMessages' \in {activityMessages, activityMessages + 1}
          /\ (activityMessages' # activityMessages) =>
               (ActivityEvent \/ ThrottleFire \/ Foreground)
       ]_vars

\* C7 witness: a delegated context that forwarded a leading and a trailing
\* throttled event
C7_Witness ==
  /\ IS_DELEGATED_BOTTOM_SHEET
  /\ activityMessages >= 2
  /\ now >= WINDOW_EVENTS_LATENCY

\* C8: every step from Unlocked to Locked ends in Locked{BiometricPrompt} if
\* non-native biometrics are configured and in Locked{PasswordForm} otherwise.
C8_LockSlide ==
  [][ (~isLocked /\ isLocked') =>
        CredentialSlide' = IF isNonNativeBiometricAuthEnabled
                             THEN "BiometricPrompt" ELSE "PasswordForm"
    ]_vars

\* C8 witness: the periodic check has just locked an idle session that has
\* non-native biometrics, and the biometric prompt is shown
C8_Witness ==
  /\ isNonNativeBiometricAuthEnabled
  /\ ~IS_DELEGATED_BOTTOM_SHEET
  /\ isLocked /\ Rendered = "BiometricPrompt"
  /\ intervalStart = now
  /\ now - lastActivityTime > autolockPeriod
  /\ now >= 2 * INTERVAL_CHECK_PERIOD

\* C9: in Locked{BiometricPrompt}, switchToPasswordForm() (as the focus event
\* of a return to foreground does by itself) brings up the password form, and
\* once a submission that the verification service accepts is in flight the
\* state eventually is Unlocked, whatever else happens in between.
C9_AcceptedSubmissionUnlocks ==
  /\ [][ ((SwitchToPasswordForm \/ Foreground) /\ ~IS_DELEGATED_BOTTOM_SHEET /\ isLocked)
           => (isLocked' /\ Rendered' = "PasswordForm") ]_vars
  /\ (isLocked /\ inFlight.accept > 0) ~> ~isLocked

\* C9 witness: non-native biometrics, foreground, the password form shown in
\* the Locked state with an accepted submission in flight
C9_Witness ==
  /\ isNonNativeBiometricAuthEnabled
  /\ isLocked /\ ~isBackground
  /\ Rendered = "PasswordForm"
  /\ inFlight.accept > 0

C11_BackgroundResetsToBiometricPrompt ==
  [][ /\ (Background /\ ~IS_DELEGATED_BOTTOM_SHEET /\ isLocked
            /\ isNonNativeBiometricAuthEnabled /\ Rendered = "PasswordForm")
          => Rendered' = "BiometricPrompt"
      /\ (Foreground /\ ~IS_DELEGATED_BOTTOM_SHEET /\ isLocked
            /\ Rendered = "BiometricPrompt")
          => Rendered' = "BiometricPrompt" ]_vars

\* C11, amended: entering background changes neither the credential slide
\* nor the locked flag nor the overlay; returning to foreground while Locked
\* moves the sub-state to PasswordForm, whichever slide was shown, and leaves
\* the locked flag and the overlay as they are.
C11_ForegroundShowsPasswordForm ==
  [][ /\ Background
          => UNCHANGED <<slideForBiometricAuth, isLocked, shouldRenderUi, passwordError>>
      /\ (Foreground /\ ~IS_DELEGATED_BOTTOM_SHEET /\ isLocked)
          => /\ Rendered' = "PasswordForm"
             /\ UNCHANGED <<isLocked, shouldRenderUi>> ]_vars

\* Locked with a non-native biometric method, the password form on screen
\* after a return to foreground at this instant (its focus event has just
\* been recorded as activity)
C11_Witness ==
  /\ ~IS_DELEGATED_BOTTOM_SHEET
  /\ isLocked
  /\ isNonNativeBiometricAuthEnabled
  /\ ~isBackground
  /\ Rendered = "PasswordForm"
  /\ now > 0
  /\ lastActivityTime = now
  /\ throttleDue = now + WINDOW_EVENTS_LATENCY

\* C12: a periodic check changes the locked flag only by locking, and only
\* when the state is Unlocked and the idle time is above the period; a check
\* made while Locked, or with an idle time of at most the period, changes
\* nothing but the time of the next check.
C12_CheckLocksOnlyWhenIdleUnlocked ==
  [][Tick =>
       /\ (isLocked' # isLocked)
            => (~isLocked /\ isLocked' /\ now - lastActivityTime > autolockPeriod)
       /\ (isLocked \/ now - lastActivityTime <= autolockPeriod)
            => UNCHANGED <<envVars, mountVars, isLocked, shouldRenderUi, lastActivityTime,
                           slideForBiometricAuth, passwordError, closeTimeout,
                           intervalStart, throttleDue, throttlePending, now, isBackground,
                           inFlight, isPinAccepted, browserVisible, browserShows,
                           bottomSheetVisible, activityMessages>>]_vars

\* autolock enabled, a check has just been made with an idle time of exactly
\* the period, and the session is still Unlocked
C12_Witness ==
  /\ ~IS_DELEGATED_BOTTOM_SHEET
  /\ autolockValue # "never" /\ ~isHardwareAccount
  /\ ~isLocked
  /\ now - lastActivityTime = autolockPeriod
  /\ intervalStart < now
  /\ intervalDue = now + INTERVAL_CHECK_PERIOD

\* C13: a lock() call made while autolock is "never" or the account is
\* hardware-backed changes neither the lock state (locked flag and credential
\* sub-state) nor the overlay, the in-app browser or the delegated overlay.
C13_LockIsNoOpWhenExempt ==
  [][(LockCall /\ (autolockValue = "never" \/ isHardwareAccount))
       => /\ LockState' = LockState
          /\ UNCHANGED <<isLocked, shouldRenderUi, browserVisible, bottomSheetVisible>>]_vars

\* C14: switchToPasswordForm changes the lock state only when it is
\* Locked{BiometricPrompt}, and then to Locked{PasswordForm}; from Unlocked
\* and from Locked{PasswordForm} the lock state stays as it is; in every case
\* the locked flag, the overlay visibility, the error message and the
\* activity timestamp are unchanged.
C14_SwitchOnlyFromBiometricPrompt ==
  [][SwitchToPasswordForm =>
       /\ (LockState = "BiometricPrompt") => (LockState' = "PasswordForm")
       /\ (LockState # "BiometricPrompt") => (LockState' = LockState)
       /\ UNCHANGED <<isLocked, shouldRenderUi, passwordError, lastActivityTime>>]_vars

\* Locked{PasswordForm} with a non-native biometric method, mounted in the
\* background and never brought to the foreground: the password form is
\* there because the Unlock button was used
C14_Witness ==
  /\ ~IS_DELEGATED_BOTTOM_SHEET
  /\ isNonNativeBiometricAuthEnabled
  /\ isLocked
  /\ LockState = "PasswordForm"
  /\ isBackground
  /\ now = 0
  /\ throttleDue = None

\* C15: at most one verifyPassword call is outstanding at any time.
C15_AtMostOneVerification == inFlight.accept + inFlight.refuse <= 1

C17_LockedOverlayShown ==
  /\ [](~IS_DELEGATED_BOTTOM_SHEET /\ isLocked => shouldRenderUi /\ ~closeTimeout)
  /\ [][(shouldRenderUi /\ ~shouldRenderUi') => (TransitionEnd /\ ~isLocked)]_vars

\* native build, Locked again with the overlay shown while the "PIN accepted"
\* flag of the last unlock is still set: the lock came before the exit
\* transition of that unlock had ended
C17_Witness ==
  /\ IS_CAPACITOR
  /\ ~IS_DELEGATED_BOTTOM_SHEET
  /\ isLocked
  /\ shouldRenderUi
  /\ isPinAccepted
  /\ InFlightCount = 0
  /\ intervalStart = now

\* C18: a step that unlocks leaves the activity timestamp as it is; the
\* timestamp is written only by the throttled activity handler (a window
\* event, a reported activity event, the end of a throttle window with a
\* call pending), which sets it to the current time whether the session is
\* Locked or Unlocked; and every periodic check made while Unlocked with
\* autolock enabled and the idle time above the period locks, the first check
\* after an unlock included.
C18_UnlockKeepsActivityTimestamp ==
  [][ /\ (isLocked /\ ~isLocked') => UNCHANGED lastActivityTime
      /\ (lastActivityTime' # lastActivityTime)
           => /\ ActivityEvent \/ ReportAppLockActivityEvent \/ ThrottleFire \/ Foreground
              /\ lastActivityTime' = now
      /\ ((ActivityEvent \/ ReportAppLockActivityEvent \/ Foreground)
            /\ ~IS_DELEGATED_BOTTOM_SHEET /\ throttleDue = None)
           => lastActivityTime' = now
      /\ (Tick /\ ~isLocked /\ autolockValue # "never" /\ ~isHardwareAccount
            /\ now - lastActivityTime > autolockPeriod)
           => isLocked' ]_vars

\* no activity since the mount, a period of one check interval, and the
\* locked flag was set at 3 intervals: the session was unlocked after more
\* than a period without activity, and is locked again
C18_Witness ==
  /\ ~IS_DELEGATED_BOTTOM_SHEET
  /\ autolockValue = "1" /\ ~isHardwareAccount
  /\ isLocked
  /\ lastActivityTime = 0
  /\ now = 3 * INTERVAL_CHECK_PERIOD
  /\ intervalStart = now

\* C19: on the native build, whenever the session is Unlocked and the
\* overlay is hidden, the "PIN accepted" flag is clear.
C19_PinFlagClearWhenUnlockedHidden ==
  (IS_CAPACITOR /\ ~isLocked /\ ~shouldRenderUi) => ~isPinAccepted

\* C20: a step that changes the configuration (autolock value,
\* hardware-account flag, biometric kind) leaves the locked flag and the
\* overlay as they are.  Whatever the configuration has become, the session
\* goes from Locked to Unlocked only in the step that continues an accepted
\* submission, and from Unlocked to Locked only while autolock is enabled and
\* the account is not hardware-backed, in a periodic check that finds the
\* idle time above the period then configured or in a lock() call.
C20_ConfigChangeKeepsLockedFlag ==
  [][ /\ (<<autolockValue, isHardwareAccount, isNonNativeBiometricAuthEnabled>>'
             # <<autolockValue, isHardwareAccount, isNonNativeBiometricAuthEnabled>>)
           => UNCHANGED <<isLocked, shouldRenderUi, closeTimeout, lastActivityTime>>
      /\ (isLocked /\ ~isLocked')
           => (VerifyAccepted /\ ~IS_CAPACITOR) \/ HapticResolved
      /\ (~isLocked /\ isLocked')
           => /\ autolockValue # "never" /\ ~isHardwareAccount
              /\ (Tick /\ now - lastActivityTime > autolockPeriod) \/ LockCall ]_vars

\* the session is Locked although autolock is "never": the configuration
\* changed while it was Locked
C20_Witness ==
  /\ ~IS_DELEGATED_BOTTOM_SHEET
  /\ isLocked
  /\ shouldRenderUi
  /\ autolockValue = "never"

====
